---- MODULE Spec2Model ----
(***************************************************************************)
(* The news ingestion pipeline of truecheck-backend                        *)
(* (src/services/news_aggregator.py, driven by src/routes/news.py):        *)
(* the three source variants, the aggregator that runs them, and the       *)
(* persisted source configuration document sources_config.json.            *)
(***************************************************************************)
EXTENDS Integers, Sequences, FiniteSets, TLC

VARIABLES
    cfgFile,    \* content of sources_config.json
    db,         \* committed rows of the news table, in insertion order
    agg,        \* the NewsAggregator instance in use (state, sources)
    up,         \* what the upstream services answer
    clock,      \* logical time: number of toggle_source and update_all calls made
    off,        \* ids whose last toggle(id, false) returned true, until the next update_all
    last,       \* observable outcome of the last operation
    cand,       \* one upstream candidate: an API claim, a feed entry or a ClaimReview object
    rec,        \* the News row a source built from cand and handed to session.add
    cyc         \* the update requests in progress at once, each with its aggregator and session

vars == <<cfgFile, db, agg, up, clock, off, last, cand, rec, cyc>>

----------------------------------------------------------------------------
(* Bounds of the model *)

\* toggle_source and update_all calls explored in one behaviour
MaxOps == 3

\* fragments a rating or title text is put together from
MaxFragments == 2

\* longest claim text or description, in characters
MaxSummaryLen == 502

\* links on a seed page
MaxLinks == 14

\* JSON-LD script elements on an article page
MaxBlocks == 2

----------------------------------------------------------------------------
(* Static source definitions: NewsAggregator.load_config *)

SourceIds == <<"google_api", "poligrafo_scraper", "observador_scraper", "poligrafo_rss">>

SourceSet == {SourceIds[i] : i \in DOMAIN SourceIds}

ScraperIds == {"poligrafo_scraper", "observador_scraper"}

ClassOf(id) ==
    IF id = "google_api" THEN "GoogleFactCheckSource"
    ELSE IF id = "poligrafo_rss" THEN "RSSFeedSource"
    ELSE "ClaimReviewScraperSource"

\* languages the loader passes when the document gives none
\* the display name each source is constructed with
NameOf(id) ==
    IF id = "google_api" THEN "Google Fact Check API"
    ELSE IF id = "poligrafo_scraper" THEN "Polígrafo Scraper"
    ELSE IF id = "observador_scraper" THEN "Observador Scraper"
    ELSE "Polígrafo RSS"

LoaderLanguages == <<"pt", "en", "es">>

\* languages GoogleFactCheckSource falls back to when given a falsy list
GoogleDefaultLanguages == <<"pt", "en">>

Langs == {"pt", "en", "es"}

\* feed.entries[:15]
FeedCap == 15

\* scored_links[:12]
LinkCap == 12

----------------------------------------------------------------------------
(* Run statistics: NewsSource.__init__ / update_stats.                     *)
(* A stats value is whatever the document held: a dict (possibly without   *)
(* its total_count key) or a truthy non-dict.  last_run = 0 stands for     *)
(* None; total_count is meaningful only when has_total.                    *)

DefaultStats ==
    [kind |-> "dict", last_run |-> 0, last_count |-> 0,
     has_total |-> TRUE, total_count |-> 0]

\* the three assignments of update_stats, in order; raised when one of them throws
update_stats(stats, count, now) ==
    IF stats.kind # "dict"
    THEN [stats |-> stats, raised |-> TRUE]
    ELSE IF ~stats.has_total
    THEN [stats |-> [stats EXCEPT !.last_run = now, !.last_count = count],
          raised |-> TRUE]
    ELSE [stats |-> [stats EXCEPT !.last_run = now, !.last_count = count,
                                  !.total_count = @ + count],
          raised |-> FALSE]

----------------------------------------------------------------------------
(* The storage session: rows pending in the session and rows committed.    *)
(* A row is [url, by]: its dedup key and the source id that inserted it    *)
(* ("manual" for a row added outside the pipeline).  The store is taken as *)
(* reliable: queries and commits do not throw.                             *)

NewsItem(url, by) == [url |-> url, by |-> by]

UrlsOf(rows) == {rows[i].url : i \in DOMAIN rows}

\* select(News).where(News.url == url).first(): the session autoflushes its
\* pending rows before the query, so they are seen
ExistsNoAutoflush(sess, url) == url \in UrlsOf(sess.db)

\* the same query filtering on another column: it never matches a url
ExistsWrongColumn(sess, url) ==
    url \in {sess.db[i].by : i \in DOMAIN sess.db}
             \cup {sess.pending[i].by : i \in DOMAIN sess.pending}

Exists(sess, url) == url \in UrlsOf(sess.db) \cup UrlsOf(sess.pending)

Add(sess, item) == [sess EXCEPT !.pending = Append(@, item)]

Commit(sess) == [db |-> sess.db \o sess.pending, pending |-> <<>>]

----------------------------------------------------------------------------
(* Upstream answers.  up.api[lang] and up.rss are [status, items]; each    *)
(* up.seed[id] is [status, links].  status is "ok" (HTTP 200), "fail" (any *)
(* other status) or "raise" (the request throws: timeout, refused).  An    *)
(* API item is the candidate's url, "" when it has none; a feed item is    *)
(* the entry's link, "" when empty, NoLink when the entry has none.  A     *)
(* link is [url, fc, rw, long, page]: the href as resolved, whether it     *)
(* contains fact-check/factcheck, whether it contains a rating word,       *)
(* whether it is longer than 50 characters, and what its page answers:     *)
(* "claim" (200 with a ClaimReview object), "noclaim" (200 without),       *)
(* "fail" (non-200 or a thrown request).                                   *)

\* what a fetch did: the session it leaves, the count it returns unless it
\* raised, its stats, whether it issued a request, (API source) the
\* languages it queried, (scraper) its valid_links and the links it requested
FetchResult(sess, count, stats, raised, net) ==
    [sess |-> sess, count |-> count, stats |-> stats, raised |-> raised, net |-> net,
     asked |-> <<>>, selected |-> <<>>, fetched |-> <<>>]

\* the loop of _fetch_lang overwriting the stored row when the url exists
RECURSIVE ApiClaimsUpsert(_, _, _, _)
ApiClaimsUpsert(sess, added, claims, i) ==
    IF i > Len(claims) THEN [sess |-> sess, added |-> added]
    ELSE IF claims[i] = "" THEN ApiClaimsUpsert(sess, added, claims, i + 1)
    ELSE IF Exists(sess, claims[i])
    THEN ApiClaimsUpsert(
             [sess EXCEPT !.db = [n \in DOMAIN sess.db |->
                                     IF sess.db[n].url = claims[i]
                                     THEN NewsItem(claims[i], "google_api")
                                     ELSE sess.db[n]]],
             added, claims, i + 1)
    ELSE ApiClaimsUpsert(Add(sess, NewsItem(claims[i], "google_api")), added + 1, claims, i + 1)

\* the loop of _fetch_lang over data["claims"], from claim i on
RECURSIVE ApiClaims(_, _, _, _)
ApiClaims(sess, added, claims, i) ==
    IF i > Len(claims) THEN [sess |-> sess, added |-> added]
    ELSE IF claims[i] = "" THEN ApiClaims(sess, added, claims, i + 1)
    ELSE IF Exists(sess, claims[i]) THEN ApiClaims(sess, added, claims, i + 1)
    ELSE ApiClaims(Add(sess, NewsItem(claims[i], "google_api")), added + 1, claims, i + 1)

\* GoogleFactCheckSource._fetch_lang
FetchLang(sess, resp) ==
    IF resp.status = "raise" THEN [sess |-> sess, added |-> 0, raised |-> TRUE]
    ELSE IF resp.status # "ok" THEN [sess |-> sess, added |-> 0, raised |-> FALSE]
    ELSE LET r == ApiClaims(sess, 0, resp.items, 1)
         IN  [sess |-> Commit(r.sess), added |-> r.added, raised |-> FALSE]

\* the loop of GoogleFactCheckSource.fetch over self.languages, from language i on;
\* an exception of _fetch_lang is caught and logged
RECURSIVE ApiLangs(_, _, _, _, _)
ApiLangs(sess, total, languages, api, i) ==
    IF i > Len(languages) THEN [sess |-> sess, total |-> total, asked |-> <<>>]
    ELSE LET r == FetchLang(sess, api[languages[i]])
             rest == IF r.raised THEN ApiLangs(sess, total, languages, api, i + 1)
                     ELSE ApiLangs(r.sess, total + r.added, languages, api, i + 1)
         IN  [rest EXCEPT !.asked = <<languages[i]>> \o @]

\* GoogleFactCheckSource.fetch
FetchGoogle(src, sess, u, now) ==
    IF ~src.enabled THEN FetchResult(sess, 0, src.stats, FALSE, FALSE)
    ELSE IF ~u.apiKey THEN FetchResult(sess, 0, src.stats, FALSE, FALSE)
    ELSE LET r == ApiLangs(sess, 0, src.languages, u.api, 1)
             s == update_stats(src.stats, r.total, now)
         IN  [FetchResult(r.sess, r.total, s.stats, s.raised, Len(src.languages) > 0)
                 EXCEPT !.asked = r.asked]

Min(a, b) == IF a < b THEN a ELSE b

\* a feed entry without link element: entry.link raises AttributeError
NoLink == "<no link>"

\* the loop of RSSFeedSource.fetch over feed.entries[:15], from entry i on; an
\* entry whose link raises is skipped, one whose link is "" goes on
RECURSIVE RssEntries(_, _, _, _)
RssEntries(sess, added, entries, i) ==
    IF i > Len(entries) THEN [sess |-> sess, added |-> added]
    ELSE IF entries[i] = NoLink THEN RssEntries(sess, added, entries, i + 1)
    ELSE IF Exists(sess, entries[i]) THEN RssEntries(sess, added, entries, i + 1)
    ELSE RssEntries(Add(sess, NewsItem(entries[i], "poligrafo_rss")), added + 1, entries, i + 1)

\* RSSFeedSource.fetch
FetchRss(src, sess, u, now) ==
    IF ~src.enabled THEN FetchResult(sess, 0, src.stats, FALSE, FALSE)
    ELSE IF u.rss.status = "fail" THEN FetchResult(sess, 0, src.stats, FALSE, TRUE)
    ELSE LET r == IF u.rss.status = "raise" THEN [sess |-> sess, added |-> 0]
                  ELSE LET e == RssEntries(sess, 0, SubSeq(u.rss.items, 1, Min(FeedCap, Len(u.rss.items))), 1)
                       IN  [sess |-> Commit(e.sess), added |-> e.added]
             s == update_stats(src.stats, r.added, now)
         IN  FetchResult(r.sess, r.added, s.stats, s.raised, TRUE)

\* links_to_check: the set of hrefs, here in order of first occurrence
RECURSIVE Distinct(_, _)
Distinct(links, i) ==
    IF i > Len(links) THEN <<>>
    ELSE IF \E j \in 1..(i - 1) : links[j].url = links[i].url THEN Distinct(links, i + 1)
    ELSE <<links[i]>> \o Distinct(links, i + 1)

Score(link) ==
    (IF link.fc THEN 5 ELSE 0) + (IF link.rw THEN 2 ELSE 0) + (IF link.long THEN 1 ELSE 0)

\* scored_links.sort(key=score, reverse=True): stable, scores from s down to 0
RECURSIVE SortByScore(_, _)
SortByScore(links, s) ==
    IF s < 0 THEN <<>>
    ELSE SelectSeq(links, LAMBDA l : Score(l) = s) \o SortByScore(links, s - 1)

\* valid_links taken from the links as collected, without the sort
ValidLinksUnsorted(links) ==
    LET found == Distinct(links, 1)
    IN  SelectSeq(SubSeq(found, 1, Min(LinkCap, Len(found))), LAMBDA l : Score(l) > 0)

\* valid_links = [l[1] for l in scored_links[:12] if l[0] > 0]
ValidLinks(links) ==
    LET sorted == SortByScore(Distinct(links, 1), 8)
    IN  SelectSeq(SubSeq(sorted, 1, Min(LinkCap, Len(sorted))), LAMBDA l : Score(l) > 0)

\* A JSON value of a JSON-LD block, as far as _parse_article looks at it: a
\* scalar, an array, or an object with its @type, its @graph (<<>>: none), and
\* what itemReviewed and author hold
JScalar ==
    [j |-> "scalar", type |-> "", item |-> "absent", author |-> "absent",
     claim |-> "", rating |-> "", graph |-> <<>>, items |-> <<>>]

JList(items) == [JScalar EXCEPT !.j = "list", !.items = items]

JDict(type, item, author, claim, rating) ==
    [JScalar EXCEPT !.j = "dict", !.type = type, !.item = item, !.author = author,
                    !.claim = claim, !.rating = rating]

JGraph(value) == [JDict("", "absent", "absent", "", "") EXCEPT !.graph = <<value>>]

\* a script element: json.loads(script.string) succeeds or raises
Script(parses, data) == [parses |-> parses, data |-> data]

\* a page: its <title> and its JSON-LD script elements in document order
Page(title, blocks) == [kind |-> "page", title |-> title, blocks |-> blocks]

\* objects = data.get('@graph', [data]) if isinstance(data, dict) else data;
\* a dict is wrapped in a list; iterating a scalar raises
ObjectsOf(data) ==
    LET objects == IF data.j = "dict"
                   THEN (IF data.graph # <<>> THEN data.graph[1] ELSE JList(<<data>>))
                   ELSE data
    IN  IF objects.j = "dict" THEN [raised |-> FALSE, objs |-> <<objects>>]
        ELSE IF objects.j = "list" THEN [raised |-> FALSE, objs |-> objects.items]
        ELSE [raised |-> TRUE, objs |-> <<>>]

\* the extraction of one ClaimReview object raises when itemReviewed or author
\* is no dict (item.get, obj.get('author', {}).get)
ExtractionRaises(obj) == obj.item \notin {"absent", "dict"} \/ obj.author \notin {"absent", "dict"}

\* the loop over the objects of one block that goes on after an object raised
RECURSIVE WalkObjectsSkipping(_, _)
WalkObjectsSkipping(objs, o) ==
    IF o > Len(objs) THEN 0
    ELSE IF objs[o].j # "dict" THEN WalkObjectsSkipping(objs, o + 1)
    ELSE IF objs[o].type # "ClaimReview" THEN WalkObjectsSkipping(objs, o + 1)
    ELSE IF ExtractionRaises(objs[o]) THEN WalkObjectsSkipping(objs, o + 1)
    ELSE o

\* for obj in objects: the index of the object the row is built from, 0 when
\* the loop ends or an exception ends it (obj.get on a non-dict, the extraction)
RECURSIVE WalkObjects(_, _)
WalkObjects(objs, o) ==
    IF o > Len(objs) THEN 0
    ELSE IF objs[o].j # "dict" THEN 0
    ELSE IF objs[o].type # "ClaimReview" THEN WalkObjects(objs, o + 1)
    ELSE IF ExtractionRaises(objs[o]) THEN 0
    ELSE o

\* for script in schemas, with its try/except: continue: the position
\* <<block, object>> of the object the row is built from, <<>> when there is none
RECURSIVE WalkScripts(_, _)
WalkScripts(blocks, b) ==
    IF b > Len(blocks) THEN <<>>
    ELSE IF ~blocks[b].parses THEN WalkScripts(blocks, b + 1)
    ELSE LET r == ObjectsOf(blocks[b].data)
             o == IF r.raised THEN 0 ELSE WalkObjects(r.objs, 1)
         IN  IF o = 0 THEN WalkScripts(blocks, b + 1) ELSE <<b, o>>

\* ClaimReviewScraperSource._parse_article: session.add of one row and return 1
\* at the first object that gets through, return 0 otherwise
parse_article(sess, page, url, by) ==
    LET used == WalkScripts(page.blocks, 1)
    IN  IF used = <<>> THEN [sess |-> sess, count |-> 0, used |-> used]
        ELSE [sess |-> Add(sess, NewsItem(url, by)), count |-> 1, used |-> used]

\* ClaimReviewScraperSource._parse_article on the page of link, the page given
\* by what parse_article makes of it: "claim" (a row is built) or not
ParseArticle(sess, link, id) ==
    IF link.page = "claim"
    THEN [sess |-> Add(sess, NewsItem(link.url, id)), count |-> 1]
    ELSE [sess |-> sess, count |-> 0]

\* the loop of ClaimReviewScraperSource.fetch over valid_links, from link i on
RECURSIVE ScrapeLinks(_, _, _, _, _)
ScrapeLinks(sess, added, links, i, id) ==
    IF i > Len(links) THEN [sess |-> sess, added |-> added, fetched |-> <<>>]
    ELSE IF Exists(sess, links[i].url) THEN ScrapeLinks(sess, added, links, i + 1, id)
    ELSE LET r == IF links[i].page = "fail" THEN [sess |-> sess, count |-> 0]
                  ELSE ParseArticle(sess, links[i], id)
             rest == ScrapeLinks(r.sess, added + r.count, links, i + 1, id)
         IN  [rest EXCEPT !.fetched = <<links[i]>> \o @]

\* ClaimReviewScraperSource.fetch; each configured scraper has one seed url
FetchScraper(id, src, sess, u, now) ==
    IF ~src.enabled THEN FetchResult(sess, 0, src.stats, FALSE, FALSE)
    ELSE LET valid_links == IF u.seed[id].status # "ok" THEN <<>>
                            ELSE ValidLinks(u.seed[id].links)
             r == ScrapeLinks(sess, 0, valid_links, 1, id)
             s == update_stats(src.stats, r.added, now)
         IN  [FetchResult(Commit(r.sess), r.added, s.stats, s.raised, TRUE)
                 EXCEPT !.selected = valid_links, !.fetched = r.fetched]

\* fetch without the test of self.enabled
FetchIgnoringEnabled(id, src, sess, u, now) ==
    IF id = "google_api" THEN FetchGoogle([src EXCEPT !.enabled = TRUE], sess, u, now)
    ELSE IF id = "poligrafo_rss" THEN FetchRss([src EXCEPT !.enabled = TRUE], sess, u, now)
    ELSE FetchScraper(id, [src EXCEPT !.enabled = TRUE], sess, u, now)

\* source.fetch(session), by the class of the source
Fetch(id, src, sess, u, now) ==
    IF id = "google_api" THEN FetchGoogle(src, sess, u, now)
    ELSE IF id = "poligrafo_rss" THEN FetchRss(src, sess, u, now)
    ELSE FetchScraper(id, src, sess, u, now)

----------------------------------------------------------------------------
(* The News row each source builds from a candidate whose url is not       *)
(* stored.  Texts are strings; x in s of Python is substring containment.  *)

SummaryCap == 500

TitleCap == 100

UpperLetters == "ABCDEFGHIJKLMNOPQRSTUVWXYZÁÂÃÇÉÊÍÓÔÕÚ"

LowerLetters == "abcdefghijklmnopqrstuvwxyzáâãçéêíóôõú"

LowerChar(c) ==
    IF \E i \in 1..Len(UpperLetters) : SubSeq(UpperLetters, i, i) = c
    THEN LET i == CHOOSE k \in 1..Len(UpperLetters) : SubSeq(UpperLetters, k, k) = c
         IN  SubSeq(LowerLetters, i, i)
    ELSE c

\* str.lower(), on the letters of UpperLetters: character by character, the
\* string split in halves
RECURSIVE Lower(_)
Lower(s) ==
    IF Len(s) = 0 THEN ""
    ELSE IF Len(s) = 1 THEN LowerChar(s)
    ELSE LET h == Len(s) \div 2
         IN  Lower(SubSeq(s, 1, h)) \o Lower(SubSeq(s, h + 1, Len(s)))

\* term in text
Contains(text, term) ==
    \E i \in 1..(Len(text) - Len(term) + 1) : SubSeq(text, i, i + Len(term) - 1) = term

\* any(x in text for x in terms)
AnyIn(text, terms) == \E k \in DOMAIN terms : Contains(text, terms[k])

\* s[:n]
Prefix(s, n) == SubSeq(s, 1, Min(n, Len(s)))

\* verdict = "Parcial"; if any false term: "Falso"; elif any true term: "Verdadeiro"
Classify(text, false_terms, true_terms) ==
    IF AnyIn(text, false_terms) THEN "Falso"
    ELSE IF AnyIn(text, true_terms) THEN "Verdadeiro"
    ELSE "Parcial"

ApiFalseTerms == <<"falso", "false", "fake", "mentira", "incorrect", "incorrecto", "faux">>

ApiTrueTerms == <<"verdadeiro", "true", "correct", "correto", "vrai", "autêntico">>

RssFalseTerms == <<"falso", "mentira", "fake", "incorrecto", "enganoso", "false">>

RssTrueTerms == <<"verdadeiro", "correto", "autêntico", "true", "correct">>

ScraperFalseTerms == <<"falso", "false", "fake", "incorrect", "mentira">>

ScraperTrueTerms == <<"verdadeiro", "true", "correct", "correto">>

\* GoogleFactCheckSource._fetch_lang: the verdict of a textualRating
ApiVerdict(textual_rating) == Classify(Lower(textual_rating), ApiFalseTerms, ApiTrueTerms)

\* RSSFeedSource.fetch: the verdict of text_to_check = title + " " + summary
RssVerdict(text) == Classify(Lower(text), RssFalseTerms, RssTrueTerms)

\* ClaimReviewScraperSource._parse_article: the verdict of str(rating_val)
ScraperVerdict(rating_val) == Classify(Lower(rating_val), ScraperFalseTerms, ScraperTrueTerms)

\* BeautifulSoup(summary, "html.parser").get_text() on text whose markup is
\* tags "<...>": the text outside the tags
\* a left-to-right scan of s, split in halves: out is the text kept, in_tag
\* whether the scan ends inside a tag
RECURSIVE ScanText(_, _)
ScanText(s, in_tag) ==
    IF Len(s) = 0 THEN [out |-> "", in_tag |-> in_tag]
    ELSE IF Len(s) = 1
    THEN IF in_tag THEN [out |-> "", in_tag |-> s # ">"]
         ELSE IF s = "<" THEN [out |-> "", in_tag |-> TRUE]
         ELSE [out |-> s, in_tag |-> FALSE]
    ELSE LET h == Len(s) \div 2
             l == ScanText(SubSeq(s, 1, h), in_tag)
             r == ScanText(SubSeq(s, h + 1, Len(s)), l.in_tag)
         IN  [out |-> l.out \o r.out, in_tag |-> r.in_tag]

GetText(s) == ScanText(s, FALSE).out

News(title, summary, verdict) == [title |-> title, summary |-> summary, verdict |-> verdict]

\* an API claim: text, and of claimReview[0] the title (when has_title) and
\* the textualRating (when has_rating)
ApiClaim(text, has_title, title, has_rating, rating) ==
    [kind |-> "api", text |-> text, has_title |-> has_title, title |-> title,
     has_rating |-> has_rating, rating |-> rating]

\* a feed entry: title and summary ("" when it has neither summary nor description)
FeedEntry(title, summary) == [kind |-> "feed", title |-> title, summary |-> summary]

\* a ClaimReview object: itemReviewed.name or .text ("" when neither), and
\* reviewRating.alternateName or .ratingValue as str ("" when neither)
ClaimReview(claim, rating_val, page_title) ==
    [kind |-> "review", claim |-> claim, rating_val |-> rating_val,
     page_title |-> page_title]

\* GoogleFactCheckSource._fetch_lang: News(title=title, summary=claim_text, ...)
ApiRecord(c) ==
    LET claim_text == c.text
        title == IF c.has_title /\ c.title # "" THEN c.title ELSE Prefix(claim_text, TitleCap)
        textual_rating == IF c.has_rating THEN c.rating ELSE "Unknown"
    IN  News(title, claim_text, ApiVerdict(textual_rating))

\* RSSFeedSource.fetch: News(title=title, summary=get_text(summary)[:500], ...)
RssRecord(c) ==
    News(c.title, Prefix(GetText(c.summary), SummaryCap),
         RssVerdict(c.title \o " " \o c.summary))

\* ClaimReviewScraperSource._parse_article: News(title=..., summary=claim[:500], ...)
ScraperRecord(c) ==
    LET claim == IF c.claim # "" THEN c.claim ELSE "Fact Check"
        verdict == IF c.rating_val # "" THEN ScraperVerdict(c.rating_val) ELSE "Parcial"
        title == IF c.page_title # "" THEN c.page_title ELSE Prefix(claim, TitleCap)
    IN  News(title, Prefix(claim, SummaryCap), verdict)

----------------------------------------------------------------------------
(* The persisted configuration document.  cfgFile is [kind, doc]: kind is  *)
(* "missing" (no file), "garbage" (not valid JSON, e.g. a truncated        *)
(* write), "nonobject" (valid JSON that is not an object) or "object";     *)
(* doc maps each source id to the value the object holds for it:           *)
(* kind "absent" (no key, or a value that is neither bool nor dict),       *)
(* "bool" (the legacy bare boolean b) or "dict" with                       *)
(*   enabled    "absent", "true" or "false"                                *)
(*   languages  present when has_langs                                     *)
(*   stats      stats_kind "absent", "empty" (a falsy value) or "value"    *)
(*   type       the class name save_config writes (never read back)        *)

AbsentEntry ==
    [kind |-> "absent", b |-> FALSE, enabled |-> "absent", has_langs |-> FALSE,
     languages |-> <<>>, stats_kind |-> "absent", stats |-> DefaultStats, type |-> ""]

EmptyDoc == [id \in SourceSet |-> AbsentEntry]

MissingFile == [kind |-> "missing", doc |-> EmptyDoc]

GarbageFile == [kind |-> "garbage", doc |-> EmptyDoc]

NonObjectFile == [kind |-> "nonobject", doc |-> EmptyDoc]

ObjectFile(doc) == [kind |-> "object", doc |-> doc]

\* the default of get_conf: {"enabled": default_enabled, "stats": {}}
DefaultConf == [AbsentEntry EXCEPT !.kind = "dict", !.enabled = "true", !.stats_kind = "empty"]

\* get_conf without the isinstance(val, bool) branch
get_conf_dict_only(file, key) ==
    IF file.kind # "object" THEN DefaultConf
    ELSE IF file.doc[key].kind = "dict" THEN file.doc[key]
    ELSE DefaultConf

\* load_config.get_conf(key) on the parsed config (an object, or {} when the
\* file is missing or unreadable)
get_conf(file, key) ==
    IF file.kind # "object" THEN DefaultConf
    ELSE LET val == file.doc[key]
         IN  IF val.kind = "bool"
             THEN [DefaultConf EXCEPT !.enabled = IF val.b THEN "true" ELSE "false"]
             ELSE IF val.kind = "dict" THEN val
             ELSE DefaultConf

\* the constructor calls of load_config: enabled=c.get("enabled", True),
\* languages=c.get("languages", [...]) (API source only), stats=c.get("stats")
\* kept "if stats"
MakeSource(id, c) ==
    [enabled   |-> c.enabled # "false",
     languages |-> IF id = "google_api"
                   THEN LET l == IF c.has_langs THEN c.languages ELSE LoaderLanguages
                        IN  IF l = <<>> THEN GoogleDefaultLanguages ELSE l
                   ELSE <<"pt">>,
     stats     |-> IF c.stats_kind = "value" THEN c.stats ELSE DefaultStats]

DefaultSources == [id \in SourceSet |-> MakeSource(id, DefaultConf)]

NoAggregator == [state |-> "none", sources |-> DefaultSources]

\* NewsAggregator.__init__ / load_config: config.get on a non-object raises
load_config(file) ==
    IF file.kind = "nonobject"
    THEN [state |-> "raised", sources |-> DefaultSources]
    ELSE [state |-> "ready",
          sources |-> [id \in SourceSet |-> MakeSource(id, get_conf(file, id))]]

\* a config dict without the "languages" key
ConfigOfNoLanguages(sources) ==
    [id \in SourceSet |->
        [kind |-> "dict", b |-> FALSE,
         enabled |-> IF sources[id].enabled THEN "true" ELSE "false",
         has_langs |-> FALSE, languages |-> <<>>,
         stats_kind |-> "value", stats |-> sources[id].stats,
         type |-> ClassOf(id)]]

\* the config dict save_config builds
ConfigOf(sources) ==
    [id \in SourceSet |->
        [kind |-> "dict", b |-> FALSE,
         enabled |-> IF sources[id].enabled THEN "true" ELSE "false",
         has_langs |-> TRUE, languages |-> sources[id].languages,
         stats_kind |-> "value", stats |-> sources[id].stats,
         type |-> ClassOf(id)]]

\* what open(CONFIG_FILE, 'w') and json.dump leave in the file: "ok" (written
\* and closed), "open_failed" (open throws, the file is untouched),
\* "dump_failed" (the file was truncated by open and the write throws part-way),
\* "crash" (the process dies after open truncated the file)
WriteOutcomes == {"ok", "open_failed", "dump_failed", "crash"}

\* save_config: the exception of a failed write is caught and logged
save_config(file, sources, outcome) ==
    IF outcome = "ok" THEN ObjectFile(ConfigOf(sources))
    ELSE IF outcome = "open_failed" THEN file
    ELSE GarbageFile

----------------------------------------------------------------------------
(* NewsAggregator.update_all.  The loop state st carries the session, the  *)
(* sources, the running total and, for the record, which fetches were      *)
(* invoked, which raised, what each returned and which issued requests.    *)
(* st.raised stands for an exception leaving the loop.                     *)

LoopStart(sources, rows) ==
    [sess |-> [db |-> rows, pending |-> <<>>], sources |-> sources, total |-> 0,
     raised |-> FALSE, invoked |-> <<>>, failed |-> {},
     counts |-> [id \in SourceSet |-> 0], net |-> {}, asked |-> <<>>]

\* the body of the loop without its try/except: an exception of fetch leaves the loop
RunSourceUncaught(st, id, u, now) ==
    IF ~st.sources[id].enabled THEN st
    ELSE LET r == Fetch(id, st.sources[id], st.sess, u, now)
         IN  [st EXCEPT !.sess = r.sess,
                        !.sources[id].stats = r.stats,
                        !.invoked = Append(@, id),
                        !.net = IF r.net THEN @ \cup {id} ELSE @,
                        !.asked = @ \o r.asked,
                        !.failed = IF r.raised THEN @ \cup {id} ELSE @,
                        !.raised = r.raised,
                        !.total = IF r.raised THEN @ ELSE @ + r.count,
                        !.counts[id] = IF r.raised THEN 0 ELSE r.count]

\* the body of the loop of update_all: try: if source.enabled: total += await
\* source.fetch(session); except Exception: log
RunSource(st, id, u, now) ==
    IF ~st.sources[id].enabled THEN st
    ELSE LET r == Fetch(id, st.sources[id], st.sess, u, now)
         IN  [st EXCEPT !.sess = r.sess,
                        !.sources[id].stats = r.stats,
                        !.invoked = Append(@, id),
                        !.net = IF r.net THEN @ \cup {id} ELSE @,
                        !.asked = @ \o r.asked,
                        !.failed = IF r.raised THEN @ \cup {id} ELSE @,
                        !.total = IF r.raised THEN @ ELSE @ + r.count,
                        !.counts[id] = IF r.raised THEN 0 ELSE r.count]

\* for key, source in self.sources.items(), from source i on
RECURSIVE RunSources(_, _, _, _)
RunSources(st, i, u, now) ==
    IF i > Len(SourceIds) \/ st.raised THEN st
    ELSE RunSources(RunSource(st, SourceIds[i], u, now), i + 1, u, now)

update_all(sources, rows, u, now) == RunSources(LoopStart(sources, rows), 1, u, now)

\* toggle_source with save_config called after the if, for any id
toggle_source_saving_always(sources, id, enabled) ==
    IF id \in DOMAIN sources
    THEN [sources |-> [sources EXCEPT ![id].enabled = enabled], ok |-> TRUE, saves |-> TRUE]
    ELSE [sources |-> sources, ok |-> FALSE, saves |-> TRUE]

\* NewsAggregator.toggle_source: the sources after the call, the value
\* returned, and whether save_config is called
toggle_source(sources, id, enabled) ==
    IF id \in DOMAIN sources
    THEN [sources |-> [sources EXCEPT ![id].enabled = enabled], ok |-> TRUE, saves |-> TRUE]
    ELSE [sources |-> sources, ok |-> FALSE, saves |-> FALSE]

\* the entry of get_sources_status for source id
StatusEntry(sources, id) ==
    [id |-> id, name |-> NameOf(id), enabled |-> sources[id].enabled,
     type |-> ClassOf(id), languages |-> sources[id].languages,
     stats |-> sources[id].stats]

\* get_sources_status listing only the sources that are enabled
get_sources_status_enabled_only(sources) ==
    LET ids == SelectSeq(SourceIds, LAMBDA id : sources[id].enabled)
    IN  [i \in DOMAIN ids |-> StatusEntry(sources, ids[i])]

\* NewsAggregator.get_sources_status: one entry per source, in the order of
\* self.sources
get_sources_status(sources) ==
    [i \in DOMAIN SourceIds |-> StatusEntry(sources, SourceIds[i])]

----------------------------------------------------------------------------
(* update_all as a coroutine.  A cycle is one POST /api/news/update        *)
(* request: its aggregator (sources), its session (pending) and where it   *)
(* is suspended.  The code between two awaits runs without interleaving;   *)
(* the awaits are the requests client.get.  at is the request the cycle    *)
(* waits for: "lang" (language j of the API source), "feed", "seed" (the   *)
(* seed page of a scraper), "link" (the page of links[i]); "save" when the *)
(* loop of update_all is over.  A query sees the committed rows and the    *)
(* rows pending in the cycle's own session.  order lists the sources whose *)
(* fetch was called, saves counts the calls of save_config.                *)

Cycles == {"a", "b"}

CycleIdle ==
    [pc |-> "idle", sources |-> DefaultSources, pending |-> <<>>, k |-> 0,
     at |-> "none", j |-> 0, links |-> <<>>, i |-> 0, added |-> 0, total |-> 0,
     now |-> 0, order |-> <<>>, saves |-> 0]

NoCycles == [p \in Cycles |-> CycleIdle]

World(c, rows) == [c |-> c, db |-> rows]

\* the loop of update_all from source c.k on, up to the first request
RECURSIVE StartSource(_, _, _)
StartSource(c, rows, u) ==
    IF c.k > Len(SourceIds) THEN World([c EXCEPT !.at = "save"], rows)
    ELSE LET id == SourceIds[c.k]
             skip == [c EXCEPT !.k = @ + 1]
             call == [c EXCEPT !.order = Append(@, id), !.added = 0]
         IN  IF ~c.sources[id].enabled THEN StartSource(skip, rows, u)
             ELSE IF id = "google_api"
             THEN IF ~u.apiKey THEN StartSource([call EXCEPT !.k = @ + 1], rows, u)
                  ELSE World([call EXCEPT !.at = "lang", !.j = 1], rows)
             ELSE IF id = "poligrafo_rss"
             THEN World([call EXCEPT !.at = "feed"], rows)
             ELSE World([call EXCEPT !.at = "seed"], rows)

\* the end of a fetch followed by self.save_config() inside the loop
FinishSourceSaving(c, rows, u, count) ==
    LET id == SourceIds[c.k]
        s == update_stats(c.sources[id].stats, count, c.now)
    IN  World([c EXCEPT !.sources[id].stats = s.stats,
                        !.total = IF s.raised THEN @ ELSE @ + count,
                        !.k = @ + 1, !.at = "save"],
              rows)

\* the end of a fetch: self.update_stats(count); return count; total += count,
\* an exception caught by update_all; then the next source
FinishSource(c, rows, u, count) ==
    LET id == SourceIds[c.k]
        s == update_stats(c.sources[id].stats, count, c.now)
    IN  StartSource([c EXCEPT !.sources[id].stats = s.stats,
                              !.total = IF s.raised THEN @ ELSE @ + count,
                              !.k = @ + 1],
                    rows, u)

\* the loop over valid_links from link c.i on, up to the request of the
\* first link that is not stored; after the last link, session.commit()
RECURSIVE ScanLinks(_, _, _)
ScanLinks(c, rows, u) ==
    LET sess == [db |-> rows, pending |-> c.pending]
    IN  IF c.i > Len(c.links)
        THEN FinishSource([c EXCEPT !.pending = <<>>], Commit(sess).db, u, c.added)
        ELSE IF Exists(sess, c.links[c.i].url)
        THEN ScanLinks([c EXCEPT !.i = @ + 1], rows, u)
        ELSE World([c EXCEPT !.at = "link"], rows)

\* the code a cycle runs when the request it waits for is answered, up to
\* its next request
Resume(c, rows, u) ==
    LET id == SourceIds[c.k]
        src == c.sources[id]
        sess == [db |-> rows, pending |-> c.pending]
    IN  IF c.at = "lang"
        THEN LET r == FetchLang(sess, u.api[src.languages[c.j]])
                 after == IF r.raised THEN sess ELSE r.sess
                 got == [c EXCEPT !.pending = after.pending, !.added = @ + r.added]
             IN  IF c.j < Len(src.languages)
                 THEN World([got EXCEPT !.j = @ + 1], after.db)
                 ELSE FinishSource(got, after.db, u, got.added)
        ELSE IF c.at = "feed"
        THEN LET r == FetchRss(src, sess, u, c.now)
             IN  StartSource([c EXCEPT !.pending = r.sess.pending,
                                       !.sources[id].stats = r.stats,
                                       !.total = IF r.raised THEN @ ELSE @ + r.count,
                                       !.k = @ + 1],
                             r.sess.db, u)
        ELSE IF c.at = "seed"
        THEN IF u.seed[id].status # "ok"
             THEN FinishSource([c EXCEPT !.pending = <<>>], Commit(sess).db, u, 0)
             ELSE ScanLinks([c EXCEPT !.links = ValidLinks(u.seed[id].links), !.i = 1],
                            rows, u)
        ELSE LET l == c.links[c.i]
                 r == IF l.page = "fail" THEN [sess |-> sess, count |-> 0]
                      ELSE ParseArticle(sess, l, id)
             IN  ScanLinks([c EXCEPT !.pending = r.sess.pending, !.added = @ + r.count,
                                     !.i = @ + 1],
                           rows, u)

----------------------------------------------------------------------------
(* Outcome of the last operation, as its caller observes it *)

NoOutcome ==
    [op |-> "none", id |-> "", flag |-> FALSE, ok |-> FALSE, ret |-> 0,
     raised |-> FALSE, invoked |-> <<>>, failed |-> {},
     counts |-> [id \in SourceSet |-> 0], net |-> {}, write |-> "none",
     off |-> {}, repeat |-> FALSE, prevret |-> 0, status |-> <<>>, asked |-> <<>>,
     selected |-> <<>>, fetched |-> <<>>, used |-> <<>>,
     kept |-> <<>>, during |-> {}]

----------------------------------------------------------------------------
(* Inputs *)

ToggleIds == SourceSet \cup {"unknown_source"}

Answer(status, items) == [status |-> status, items |-> items]

Link(url, fc, rw, long, page) ==
    [url |-> url, fc |-> fc, rw |-> rw, long |-> long, page |-> page]

Seed(status, links) == [status |-> status, links |-> links]

Upstream(key, pt, en, es, poli, obs, rss) ==
    [apiKey |-> key,
     api |-> [l \in Langs |-> IF l = "pt" THEN pt ELSE IF l = "en" THEN en ELSE es],
     seed |-> [id \in ScraperIds |-> IF id = "poligrafo_scraper" THEN poli ELSE obs],
     rss |-> rss]

\* the store before the first operation: one row, added by hand (POST /api/news)
InitDb == <<NewsItem("u0", "manual")>>

\* links of the Poligrafo seed page: a repeated href, a ClaimReview page, a
\* link without score, a page without ClaimReview, a page that fails
PoliLinks ==
    << Link("u2", TRUE, FALSE, FALSE, "claim"), Link("u2", TRUE, FALSE, FALSE, "claim"),
       Link("u5", FALSE, FALSE, FALSE, "claim"), Link("u6", FALSE, TRUE, FALSE, "noclaim"),
       Link("u7", FALSE, FALSE, TRUE, "fail") >>

\* links of the Observador seed page: one the other scraper also finds, one
\* already stored, one of its own
ObsLinks ==
    << Link("u2", TRUE, TRUE, FALSE, "claim"), Link("u0", TRUE, FALSE, TRUE, "claim"),
       Link("u3", FALSE, TRUE, TRUE, "claim") >>

\* every source offers something new; the same url comes twice in one API
\* answer, in two languages, and from several sources; one language fails
BusyUpstream ==
    Upstream(TRUE, Answer("ok", <<"u1", "u1">>), Answer("ok", <<"u1", "", "u0">>),
             Answer("fail", <<"u8">>), Seed("ok", PoliLinks), Seed("ok", ObsLinks),
             Answer("ok", <<"u1", "u4", "u4", "u2">>))

UpFamily ==
    { BusyUpstream,
      \* nothing new anywhere
      Upstream(TRUE, Answer("ok", <<>>), Answer("ok", <<"u0">>), Answer("ok", <<"">>),
               Seed("ok", <<>>), Seed("ok", <<Link("u0", TRUE, FALSE, FALSE, "claim")>>),
               Answer("ok", <<"u0">>)),
      \* every request fails
      Upstream(TRUE, Answer("fail", <<"u1">>), Answer("raise", <<"u1">>), Answer("fail", <<>>),
               Seed("fail", PoliLinks), Seed("raise", ObsLinks), Answer("fail", <<"u4">>)),
      \* no API key; the feed request throws
      Upstream(FALSE, Answer("ok", <<"u1">>), Answer("ok", <<"u2">>), Answer("ok", <<>>),
               Seed("ok", PoliLinks), Seed("fail", ObsLinks), Answer("raise", <<"u4">>)),
      \* one language throws, the others answer
      Upstream(TRUE, Answer("raise", <<"u1">>), Answer("ok", <<"u2", "u1">>),
               Answer("ok", <<"u2", "u3">>), Seed("ok", <<>>), Seed("ok", ObsLinks),
               Answer("ok", <<"u3", "", NoLink, "u3">>)) }

Stats(last_run, last_count, total_count) ==
    [DefaultStats EXCEPT !.last_run = last_run, !.last_count = last_count,
                         !.total_count = total_count]

\* a stats dict without its total_count key
PartialStats == [DefaultStats EXCEPT !.has_total = FALSE]

\* a truthy stats value that is not a dict
NonDictStats == [DefaultStats EXCEPT !.kind = "nondict"]

BoolEntry(b) == [AbsentEntry EXCEPT !.kind = "bool", !.b = b]

DictEntry(enabled, has_langs, languages, stats_kind, stats) ==
    [AbsentEntry EXCEPT !.kind = "dict", !.enabled = enabled, !.has_langs = has_langs,
                        !.languages = languages, !.stats_kind = stats_kind,
                        !.stats = stats]

Doc(google, poli, obs, rss) ==
    [id \in SourceSet |->
        IF id = "google_api" THEN google
        ELSE IF id = "poligrafo_scraper" THEN poli
        ELSE IF id = "observador_scraper" THEN obs
        ELSE rss]

DocFamily ==
    { MissingFile, GarbageFile, NonObjectFile,
      \* legacy document of bare booleans
      ObjectFile(Doc(BoolEntry(FALSE), AbsentEntry, BoolEntry(TRUE), BoolEntry(FALSE))),
      \* a document as save_config writes it, with earlier runs recorded
      ObjectFile(Doc(DictEntry("true", TRUE, <<"en">>, "value", Stats(1, 0, 2)),
                     DictEntry("false", TRUE, <<"pt">>, "value", Stats(1, 1, 1)),
                     DictEntry("true", TRUE, <<"pt">>, "value", DefaultStats),
                     DictEntry("true", TRUE, <<"pt">>, "value", Stats(1, 2, 3)))),
      \* missing and wrong fields
      ObjectFile(Doc(DictEntry("absent", TRUE, <<>>, "absent", DefaultStats),
                     DictEntry("true", FALSE, <<>>, "value", PartialStats),
                     DictEntry("false", FALSE, <<>>, "empty", DefaultStats),
                     DictEntry("absent", FALSE, <<>>, "value", NonDictStats))),
      ObjectFile(Doc(DictEntry("true", FALSE, <<>>, "value", NonDictStats),
                     DictEntry("true", FALSE, <<>>, "empty", DefaultStats),
                     DictEntry("true", FALSE, <<>>, "value", PartialStats),
                     DictEntry("true", FALSE, <<>>, "value", PartialStats))) }

NoCandidate == [kind |-> "none"]

NoRecord == News("", "", "none")

\* the terms of the three sources, capitalised forms, and words that hold no term
Fragments ==
    { "", "falso", "false", "fake", "mentira", "incorrect", "incorrecto", "faux",
      "enganoso", "verdadeiro", "true", "correct", "correto", "vrai", "autêntico",
      "FALSO", "Verdadeiro", "AUTÊNTICO", "falsa", "parcial", " e ", "un" }

RECURSIVE Texts(_)
Texts(n) == IF n = 0 THEN {""} ELSE {t \o f : t \in Texts(n - 1), f \in Fragments}

RatingTexts == Texts(MaxFragments)

\* a text of n characters
RECURSIVE Fill(_)
Fill(n) ==
    IF n = 0 THEN ""
    ELSE LET h == Fill(n \div 2)
         IN  h \o h \o (IF n % 2 = 1 THEN "a" ELSE "")

SummaryLengths == {0, 1} \cup ((SummaryCap - 1)..MaxSummaryLen)

Candidates ==
    {ApiClaim("claim", FALSE, "", TRUE, t) : t \in RatingTexts}
    \cup {ApiClaim(Fill(n), b, "", FALSE, "") : n \in SummaryLengths, b \in BOOLEAN}
    \cup {ApiClaim(Fill(n), TRUE, "Title", TRUE, "Falso") : n \in SummaryLengths}
    \cup {FeedEntry(t, "") : t \in RatingTexts}
    \cup {FeedEntry("Governo anuncia medida, alegação é falsa", "")}
    \cup {FeedEntry("Title", "<p>" \o Fill(n) \o "</p>") : n \in SummaryLengths}
    \cup {FeedEntry("É", "<b>Fal</b>so" \o Fill(n)) : n \in SummaryLengths}
    \cup {ClaimReview("claim", t, "Page") : t \in RatingTexts}
    \cup {ClaimReview(Fill(n), "", "") : n \in SummaryLengths}

\* the document and the upstream a behaviour starts from
InitWorlds ==
    {<<MissingFile, u>> : u \in UpFamily} \cup {<<f, BusyUpstream>> : f \in DocFamily}

----------------------------------------------------------------------------
(* Actions *)

\* aggregator = NewsAggregator(): load_config from the persisted document
Construct ==
    /\ agg' = load_config(cfgFile)
    /\ last' = [NoOutcome EXCEPT !.op = "construct", !.raised = (agg'.state = "raised")]
    /\ UNCHANGED <<cfgFile, db, up, clock, off, cand, rec, cyc>>

\* aggregator.toggle_source(id, enabled)
Toggle(id, enabled) ==
    /\ agg.state = "ready"
    /\ clock < MaxOps
    /\ clock' = clock + 1
    /\ LET t == toggle_source(agg.sources, id, enabled)
       IN  \E o \in IF t.saves THEN WriteOutcomes ELSE {"none"} :
              /\ cfgFile' = IF t.saves THEN save_config(cfgFile, t.sources, o) ELSE cfgFile
              /\ IF o = "crash"
                 THEN /\ agg' = NoAggregator
                      /\ last' = [NoOutcome EXCEPT !.op = "crash", !.id = id,
                                                   !.flag = enabled, !.write = o]
                      /\ off' = off
                 ELSE /\ agg' = [agg EXCEPT !.sources = t.sources]
                      /\ last' = [NoOutcome EXCEPT !.op = "toggle", !.id = id,
                                                   !.flag = enabled, !.ok = t.ok,
                                                   !.write = o]
                      /\ off' = IF ~t.ok THEN off
                                ELSE IF enabled THEN off \ {id} ELSE off \cup {id}
    /\ UNCHANGED <<db, up, cand, rec, cyc>>

\* await aggregator.update_all(session), the session closed afterwards; the
\* urls of the model are none of the mock urls update_news_feed deletes first
UpdateAll ==
    /\ agg.state = "ready"
    /\ clock < MaxOps
    /\ clock' = clock + 1
    /\ LET r == update_all(agg.sources, db, up, clock + 1)
       IN  /\ db' = r.sess.db
           /\ \E o \in WriteOutcomes :
                 /\ cfgFile' = save_config(cfgFile, r.sources, o)
                 /\ agg' = IF o = "crash" THEN NoAggregator
                           ELSE [agg EXCEPT !.sources = r.sources]
                 /\ last' = [NoOutcome EXCEPT
                               !.op = IF o = "crash" THEN "crash" ELSE "update",
                               !.ret = r.total, !.raised = r.raised,
                               !.invoked = r.invoked, !.failed = r.failed,
                               !.counts = r.counts, !.net = r.net, !.asked = r.asked,
                               !.write = o,
                               !.off = off, !.repeat = (last.op = "update"),
                               !.prevret = last.ret]
    /\ off' = {}
    /\ UNCHANGED <<up, cand, rec, cyc>>

\* aggregator.get_sources_status()
GetStatus ==
    /\ agg.state = "ready"
    /\ last' = [NoOutcome EXCEPT !.op = "status",
                                 !.status = get_sources_status(agg.sources)]
    /\ UNCHANGED <<cfgFile, db, agg, up, clock, off, cand, rec, cyc>>

Init ==
    /\ \E w \in InitWorlds : cfgFile = w[1] /\ up = w[2]
    /\ db = InitDb
    /\ agg = NoAggregator
    /\ clock = 0
    /\ off = {}
    /\ last = NoOutcome
    /\ cand = NoCandidate
    /\ rec = NoRecord
    /\ cyc = NoCycles

Next ==
    \/ Construct
    \/ \E id \in ToggleIds, enabled \in BOOLEAN : Toggle(id, enabled)
    \/ UpdateAll
    \/ GetStatus

Spec == Init /\ [][Next]_vars

----------------------------------------------------------------------------
(* fetch called on one source of the aggregator, whatever its enabled flag *)

\* await aggregator.sources[id].fetch(session), the session closed afterwards
FetchSource(id) ==
    /\ agg.state = "ready"
    /\ clock < MaxOps
    /\ clock' = clock + 1
    /\ LET r == Fetch(id, agg.sources[id], [db |-> db, pending |-> <<>>], up, clock + 1)
       IN  /\ db' = r.sess.db
           /\ agg' = [agg EXCEPT !.sources[id].stats = r.stats]
           /\ last' = [NoOutcome EXCEPT !.op = "fetch", !.id = id,
                                        !.ret = IF r.raised THEN 0 ELSE r.count,
                                        !.raised = r.raised,
                                        !.net = IF r.net THEN {id} ELSE {},
                                        !.asked = r.asked,
                                        !.selected = r.selected,
                                        !.fetched = r.fetched]
    /\ UNCHANGED <<cfgFile, up, off, cand, rec, cyc>>

FetchNext ==
    \/ Construct
    \/ \E id \in ToggleIds, enabled \in BOOLEAN : Toggle(id, enabled)
    \/ \E id \in SourceSet : FetchSource(id)

FetchSpec == Init /\ [][FetchNext]_vars

----------------------------------------------------------------------------
(* Two update requests served at once by the event loop *)

\* the end of update_all in cycle p: save_config, return total
Finish(p, c, o) ==
    /\ cfgFile' = save_config(cfgFile, c.sources, o)
    /\ cyc' = IF o = "crash" THEN [q \in Cycles |-> [cyc[q] EXCEPT !.pc = "dead"]]
              ELSE [cyc EXCEPT ![p] = [c EXCEPT !.pc = "done", !.at = "none",
                                                !.saves = @ + 1]]

\* cycle p runs from where it is suspended up to its next await
Proceed(p, w) ==
    /\ db' = w.db
    /\ IF w.c.at = "save"
       THEN \E o \in WriteOutcomes : Finish(p, w.c, o)
       ELSE /\ cyc' = [cyc EXCEPT ![p] = w.c]
            /\ cfgFile' = cfgFile

\* POST /api/news/update arrives: aggregator = NewsAggregator(), then
\* update_all up to its first request
StartCycle(p) ==
    /\ cyc[p].pc = "idle"
    /\ clock' = clock + 1
    /\ LET a == load_config(cfgFile)
       IN  IF a.state = "raised"
           THEN /\ cyc' = [cyc EXCEPT ![p].pc = "done"]
                /\ UNCHANGED <<cfgFile, db>>
           ELSE Proceed(p, StartSource([CycleIdle EXCEPT !.pc = "run", !.sources = a.sources,
                                                       !.k = 1, !.now = clock + 1],
                                       db, up))
    /\ UNCHANGED <<agg, up, off, last, cand, rec>>

\* a request of cycle p is answered
ResumeCycle(p) ==
    /\ cyc[p].pc = "run"
    /\ Proceed(p, Resume(cyc[p], db, up))
    /\ UNCHANGED <<agg, up, clock, off, last, cand, rec>>

RaceInit ==
    /\ cfgFile = MissingFile
    /\ up \in UpFamily
    /\ db = InitDb
    /\ agg = NoAggregator
    /\ clock = 0
    /\ off = {}
    /\ last = NoOutcome
    /\ cand = NoCandidate
    /\ rec = NoRecord
    /\ cyc = NoCycles

RaceNext == \E p \in Cycles : StartCycle(p) \/ ResumeCycle(p)

RaceSpec == RaceInit /\ [][RaceNext]_vars

\* POST /api/news/sources/{id}/toggle served while update cycles may be
\* suspended: aggregator = NewsAggregator(); aggregator.toggle_source(id, enabled),
\* which has no await; last.during holds the cycles running at that time
RaceToggle(id, enabled) ==
    /\ last.op = "none"
    /\ LET a == load_config(cfgFile)
           t == toggle_source(a.sources, id, enabled)
       IN  /\ a.state = "ready"
           /\ \E o \in IF t.saves THEN WriteOutcomes ELSE {"none"} :
                 /\ cfgFile' = IF t.saves THEN save_config(cfgFile, t.sources, o) ELSE cfgFile
                 /\ cyc' = IF o = "crash" THEN [q \in Cycles |-> [cyc[q] EXCEPT !.pc = "dead"]]
                           ELSE cyc
                 /\ last' = [NoOutcome EXCEPT !.op = IF o = "crash" THEN "crash" ELSE "toggle",
                                              !.id = id, !.flag = enabled, !.ok = t.ok,
                                              !.write = o,
                                              !.during = {p \in Cycles : cyc[p].pc = "run"}]
    /\ UNCHANGED <<db, agg, up, clock, off, cand, rec>>

ToggleRaceNext == RaceNext \/ \E id \in ToggleIds, enabled \in BOOLEAN : RaceToggle(id, enabled)

ToggleRaceSpec == RaceInit /\ [][ToggleRaceNext]_vars

----------------------------------------------------------------------------
(* The scrapers fetched on seed pages of up to MaxLinks links *)

\* link n of the pool: every score from 0 to 8 occurs, and the three answers
\* of an article page
PoolLink(n) ==
    Link("l" \o ToString(n), n % 3 = 0, n % 2 = 0, n % 5 # 2,
         IF n % 4 = 0 THEN "fail" ELSE IF n % 4 = 3 THEN "noclaim" ELSE "claim")

\* a seed page with k links of the pool from link r on, the first link given twice
SeedLinks(r, k) ==
    [n \in 1..k |-> PoolLink(((r + n - 2) % MaxLinks) + 1)]
    \o (IF k > 0 THEN <<PoolLink(r)>> ELSE <<>>)

LinkInit ==
    /\ cfgFile = MissingFile
    /\ \E r \in 1..MaxLinks, k \in 0..MaxLinks :
          up = Upstream(FALSE, Answer("ok", <<>>), Answer("ok", <<>>), Answer("ok", <<>>),
                        Seed("ok", SeedLinks(r, k)), Seed("ok", SeedLinks(k + 1, MaxLinks)),
                        Answer("ok", <<>>))
    /\ db \in {InitDb,
                InitDb \o <<NewsItem("l6", "manual"), NewsItem("l11", "manual")>>}
    /\ agg = load_config(MissingFile)
    /\ clock = 0
    /\ off = {}
    /\ last = NoOutcome
    /\ cand = NoCandidate
    /\ rec = NoRecord
    /\ cyc = NoCycles

LinkNext == \E id \in ScraperIds : FetchSource(id)

LinkSpec == LinkInit /\ [][LinkNext]_vars

----------------------------------------------------------------------------
(* The anchors of a seed page: which hrefs get into links_to_check *)

\* s.startswith(p)
StartsWith(s, p) == Len(s) >= Len(p) /\ SubSeq(s, 1, Len(p)) = p

\* s.rstrip('/')
RECURSIVE RStripSlash(_)
RStripSlash(s) ==
    IF Len(s) > 0 /\ SubSeq(s, Len(s), Len(s)) = "/"
    THEN RStripSlash(SubSeq(s, 1, Len(s) - 1))
    ELSE s

\* s.replace(old, '')
RECURSIVE Remove(_, _)
Remove(s, old) ==
    IF s = "" THEN ""
    ELSE IF StartsWith(s, old) THEN Remove(SubSeq(s, Len(old) + 1, Len(s)), old)
    ELSE SubSeq(s, 1, 1) \o Remove(SubSeq(s, 2, Len(s)), old)

\* s.split(c)[0], c one character
UpTo(s, c) ==
    IF \E i \in 1..Len(s) : SubSeq(s, i, i) = c
    THEN LET i == CHOOSE i \in 1..Len(s) :
                     /\ SubSeq(s, i, i) = c
                     /\ \A k \in 1..(i - 1) : SubSeq(s, k, k) # c
         IN  SubSeq(s, 1, i - 1)
    ELSE s

\* href = source_url.rstrip('/') + href
Resolve(source_url, href) == RStripSlash(source_url) \o href

\* the body of the loop over soup.find_all('a', href=True) for one anchor:
\* the link added to links_to_check, <<>> when the anchor is skipped
CollectLink(source_url, href) ==
    IF \/ href = "" \/ Len(href) < 10
       \/ StartsWith(href, "#") \/ StartsWith(href, "javascript:") THEN <<>>
    ELSE IF ~StartsWith(href, "/") /\ ~StartsWith(href, "http") THEN <<>>
    ELSE LET link == IF StartsWith(href, "/") THEN Resolve(source_url, href) ELSE href
         IN  IF \/ Contains(link, source_url)
                \/ Contains(link, UpTo(Remove(source_url, "https://"), "/"))
             THEN <<link>>
             ELSE <<>>

\* the two seed urls load_config constructs the scrapers with
SeedUrls == {"https://poligrafo.sapo.pt", "https://observador.pt/factcheck"}

HrefHeads ==
    { "", "/", "//", "#", "javascript:", "mailto:", "http://", "https://",
      "https://poligrafo.sapo.pt", "http://poligrafo.sapo.pt", "https://observador.pt",
      "https://observador.pt/factcheck", "https://www.observador.pt",
      "https://sapo.pt", "https://evil.example/?u=poligrafo.sapo.pt",
      "https://evil.example/observador.pt", "https://observador.pt.evil.example" }

HrefTails == {"", "/", "/fact-check/x", "/2024/01/01/artigo-verdadeiro", "?p=1"}

Anchors ==
    {[kind |-> "href", seed |-> u, href |-> h \o t] :
        u \in SeedUrls, h \in HrefHeads, t \in HrefTails}

\* one anchor of the seed page of cand.seed
CollectHref ==
    /\ cand.kind = "href" /\ last.op = "none"
    /\ last' = [NoOutcome EXCEPT !.op = "collect",
                                 !.kept = CollectLink(cand.seed, cand.href)]
    /\ UNCHANGED <<cfgFile, db, agg, up, clock, off, cand, rec, cyc>>

HrefInit ==
    /\ cfgFile = MissingFile /\ up = BusyUpstream
    /\ db = InitDb
    /\ agg = NoAggregator
    /\ clock = 0
    /\ off = {}
    /\ last = NoOutcome
    /\ cand \in Anchors
    /\ rec = NoRecord
    /\ cyc = NoCycles

HrefNext == CollectHref

HrefSpec == HrefInit /\ [][HrefNext]_vars

----------------------------------------------------------------------------
(* _parse_article on article pages of up to MaxBlocks JSON-LD blocks *)

ReviewA == JDict("ClaimReview", "dict", "dict", "A", "falso")
ReviewB == JDict("ClaimReview", "dict", "absent", "B", "true")
\* "author": [{...}] and "itemReviewed": null
BrokenA == JDict("ClaimReview", "dict", "list", "A", "falso")
BrokenB == JDict("ClaimReview", "null", "dict", "B", "true")
WebPage == JDict("WebPage", "absent", "dict", "", "")

BlockFamily ==
    { Script(FALSE, JScalar), Script(TRUE, JScalar), Script(TRUE, JList(<<>>)),
      Script(TRUE, WebPage), Script(TRUE, ReviewA), Script(TRUE, ReviewB),
      Script(TRUE, BrokenA),
      Script(TRUE, JList(<<WebPage, ReviewA>>)),
      Script(TRUE, JList(<<JScalar, ReviewA>>)),
      Script(TRUE, JList(<<BrokenB, ReviewA>>)),
      Script(TRUE, JList(<<ReviewB, ReviewA>>)),
      Script(TRUE, JGraph(JList(<<WebPage, ReviewB>>))),
      Script(TRUE, JGraph(ReviewA)),
      Script(TRUE, JGraph(JScalar)) }

RECURSIVE BlockSeqs(_)
BlockSeqs(n) ==
    IF n = 0 THEN {<<>>}
    ELSE BlockSeqs(n - 1) \cup {Append(q, b) : q \in BlockSeqs(n - 1), b \in BlockFamily}

Pages == {Page(t, q) : t \in {"", "Page"}, q \in BlockSeqs(MaxBlocks)}

\* ClaimReviewScraperSource._parse_article on one page, in a session of its own
ParsePage ==
    /\ cand.kind = "page" /\ last.op = "none"
    /\ LET r == parse_article([db |-> db, pending |-> <<>>], cand, "u9", "poligrafo_scraper")
           obj == ObjectsOf(cand.blocks[r.used[1]].data).objs[r.used[2]]
       IN  /\ last' = [NoOutcome EXCEPT !.op = "parse", !.ret = r.count, !.used = r.used]
           /\ rec' = IF r.count = 0 THEN NoRecord
                     ELSE ScraperRecord(ClaimReview(obj.claim, obj.rating, cand.title))
    /\ UNCHANGED <<cfgFile, db, agg, up, clock, off, cand, cyc>>

PageInit ==
    /\ cfgFile = MissingFile /\ up = BusyUpstream
    /\ db = InitDb
    /\ agg = NoAggregator
    /\ clock = 0
    /\ off = {}
    /\ last = NoOutcome
    /\ cand \in Pages
    /\ rec = NoRecord
    /\ cyc = NoCycles

PageNext == ParsePage

PageSpec == PageInit /\ [][PageNext]_vars

----------------------------------------------------------------------------
(* Building the row of one candidate: each source on a candidate of its    *)
(* own kind, the url of which is not stored                                *)

\* GoogleFactCheckSource._fetch_lang on one claim
BuildApiRecord ==
    /\ cand.kind = "api" /\ rec = NoRecord
    /\ rec' = ApiRecord(cand)
    /\ UNCHANGED <<cfgFile, db, agg, up, clock, off, last, cand, cyc>>

\* RSSFeedSource.fetch on one entry
BuildRssRecord ==
    /\ cand.kind = "feed" /\ rec = NoRecord
    /\ rec' = RssRecord(cand)
    /\ UNCHANGED <<cfgFile, db, agg, up, clock, off, last, cand, cyc>>

\* ClaimReviewScraperSource._parse_article on one ClaimReview object
BuildScraperRecord ==
    /\ cand.kind = "review" /\ rec = NoRecord
    /\ rec' = ScraperRecord(cand)
    /\ UNCHANGED <<cfgFile, db, agg, up, clock, off, last, cand, cyc>>

RecordInit ==
    /\ cfgFile = MissingFile /\ up = BusyUpstream
    /\ db = InitDb
    /\ agg = NoAggregator
    /\ clock = 0
    /\ off = {}
    /\ last = NoOutcome
    /\ cand \in Candidates
    /\ rec = NoRecord
    /\ cyc = NoCycles

RecordNext == BuildApiRecord \/ BuildRssRecord \/ BuildScraperRecord

RecordSpec == RecordInit /\ [][RecordNext]_vars

----------------------------------------------------------------------------
(* Properties *)

\* the step is a completed update_all call
UpdateStep == last'.op = "update" /\ clock' = clock + 1

\* the step is a completed toggle_source call
ToggleStep == last'.op = "toggle" /\ clock' = clock + 1

RowsBy(rows, id) == {i \in DOMAIN rows : rows[i].by = id}

RowsWithUrl(rows, url) == {i \in DOMAIN rows : rows[i].url = url}

RECURSIVE SumCounts(_, _)
SumCounts(counts, ids) ==
    IF ids = {} THEN 0
    ELSE LET id == CHOOSE x \in ids : TRUE
         IN  counts[id] + SumCounts(counts, ids \ {id})

\* C1: in every reachable state no two stored rows share a url, also when one
\* fetch, two languages or two sources return the same url
NoDuplicateUrls ==
    \A i, j \in DOMAIN db : i # j => db[i].url # db[j].url

\* C1 witness: an update cycle in which the API returned u1 twice in one answer
\* and again in a second language, and the feed returned it too, stored it once
NoDuplicateUrlsWitness ==
    /\ last.op = "update"
    /\ up = BusyUpstream
    /\ {"google_api", "poligrafo_rss"} \subseteq {last.invoked[i] : i \in DOMAIN last.invoked}
    /\ last.counts["google_api"] = 1
    /\ Cardinality(RowsWithUrl(db, "u1")) = 1

\* C2: an update_all call that directly follows an update_all call on the same
\* aggregator, the upstream answering the same, returns 0 and stores nothing
UpdateIdempotent ==
    [][(UpdateStep /\ last.op = "update") => (last'.ret = 0 /\ db' = db)]_vars

\* C2 witness: a second update_all in succession, after a first one that stored rows
UpdateIdempotentWitness ==
    /\ last.op = "update"
    /\ last.repeat
    /\ last.prevret >= 3
    /\ last.invoked # <<>>
    /\ last.ret = 0

\* C3: update_all never raises and returns a non-negative integer, whatever
\* the sources and the write of the document do
UpdateNeverRaises ==
    last.op = "update" => (~last.raised /\ last.ret \in Nat)

\* C3 witness: an update_all call in which one fetch raised, a request failed
\* and the document could not be written
UpdateNeverRaisesWitness ==
    /\ last.op = "update"
    /\ last.failed # {}
    /\ last.write \in {"open_failed", "dump_failed"}
    /\ up.api["es"].status = "fail"
    /\ "google_api" \in last.net

\* C4: a fetch that raises contributes 0, every enabled source is invoked all
\* the same, in order, and the total is the sum of the other sources' counts
FailureIsolated ==
    last.op = "update" =>
        /\ \A id \in last.failed : last.counts[id] = 0
        /\ last.invoked = SelectSeq(SourceIds, LAMBDA id : agg.sources[id].enabled)
        /\ last.ret = SumCounts(last.counts, SourceSet \ last.failed)

\* C4 witness: the first source raised and a later one stored rows that were counted
FailureIsolatedWitness ==
    /\ last.op = "update"
    /\ "google_api" \in last.failed
    /\ last.counts["poligrafo_scraper"] > 0
    /\ last.ret > 0

\* C5: the integer update_all returns is the number of rows the call added to
\* the store, whatever the sources did
ReturnedEqualsAdded ==
    [][UpdateStep => last'.ret = Len(db') - Len(db)]_vars

\* C6: after toggle(id, false) returned true, the next update_all issues no
\* request for id, stores no row of it and counts 0 for it
ToggleOffSilences ==
    [][UpdateStep =>
        \A id \in off :
            /\ id \notin last'.net
            /\ id \notin {last'.invoked[i] : i \in DOMAIN last'.invoked}
            /\ last'.counts[id] = 0
            /\ Cardinality(RowsBy(db', id)) = Cardinality(RowsBy(db, id))]_vars

\* the document holds nothing usable for the enabled flag of id
EnabledUnusable(file, id) ==
    \/ file.kind # "object"
    \/ file.doc[id].kind = "absent"
    \/ file.doc[id].kind = "dict" /\ file.doc[id].enabled = "absent"

\* the document holds no well-formed stats dict for id
StatsUnusable(file, id) ==
    \/ file.kind # "object"
    \/ file.doc[id].kind # "dict"
    \/ file.doc[id].stats_kind # "value"
    \/ file.doc[id].stats.kind # "dict"
    \/ ~file.doc[id].stats.has_total

\* C7: whatever the document holds, constructing the aggregator succeeds, a
\* source whose entry is missing or malformed gets enabled = true and the
\* default stats, and no fetch of a following update_all fails
ConfigCorruptionTolerated ==
    /\ agg.state # "raised"
    /\ (last.op = "construct" /\ agg.state = "ready") =>
          \A id \in SourceSet :
              /\ EnabledUnusable(cfgFile, id) => agg.sources[id].enabled
              /\ StatsUnusable(cfgFile, id) => agg.sources[id].stats = DefaultStats
    /\ last.op = "update" => last.failed = {}

\* the document the interrupted call was writing
IntendedFile ==
    ObjectFile(ConfigOf(
        IF last'.id = "" THEN update_all(agg.sources, db, up, clock + 1).sources
        ELSE toggle_source(agg.sources, last'.id, last'.flag).sources))

\* C8: when the process dies during save_config, the document left behind is
\* the complete previous one or the complete new one
SaveCrashAtomic ==
    [][(last'.op = "crash" /\ clock' = clock + 1) => cfgFile' \in {cfgFile, IntendedFile}]_vars

\* C9: toggle with an id that is no configured source returns false, writes
\* nothing and leaves the sources, the document and the store as they were
ToggleUnknownNoEffect ==
    [][(ToggleStep /\ last'.id \notin SourceSet) =>
          /\ ~last'.ok
          /\ last'.write = "none"
          /\ agg' = agg
          /\ cfgFile' = cfgFile
          /\ db' = db]_vars

\* C9 witness: an unknown id was refused while a written document exists and a
\* source is disabled
ToggleUnknownNoEffectWitness ==
    /\ last.op = "toggle"
    /\ last.id = "unknown_source"
    /\ ~last.ok
    /\ cfgFile.kind = "object"
    /\ \E id \in SourceSet : ~agg.sources[id].enabled

\* C10: whenever toggle(id, e) returned true, an aggregator constructed from the
\* persisted document has enabled = e for id
TogglePersisted ==
    (last.op = "toggle" /\ last.ok) =>
        LET a == load_config(cfgFile)
        IN  a.state = "ready" /\ a.sources[last.id].enabled = last.flag

\* C11: get_sources_status changes neither the sources, the persisted document
\* nor the store, and returns exactly one entry per configured source, with
\* that source's id, name, enabled flag, type, languages and stats
StatusReadOnly ==
    [][last'.op = "status" =>
          /\ agg' = agg
          /\ cfgFile' = cfgFile
          /\ db' = db
          /\ Len(last'.status) = Cardinality(SourceSet)
          /\ \A id \in SourceSet :
                \E i \in DOMAIN last'.status :
                    /\ last'.status[i].id = id
                    /\ last'.status[i].name = NameOf(id)
                    /\ last'.status[i].type = ClassOf(id)
                    /\ last'.status[i].enabled = agg.sources[id].enabled
                    /\ last'.status[i].languages = agg.sources[id].languages
                    /\ last'.status[i].stats = agg.sources[id].stats]_vars

\* C11 witness: the status was read after runs were recorded, with one source
\* disabled and a written document
StatusReadOnlyWitness ==
    /\ last.op = "status"
    /\ cfgFile.kind = "object"
    /\ Len(db) > 1
    /\ \E i \in DOMAIN last.status : ~last.status[i].enabled
    /\ \E i \in DOMAIN last.status :
          last.status[i].stats.kind = "dict" /\ last.status[i].stats.last_count > 0

\* the term lists of the classifier as specified
SpecFalseTerms ==
    <<"falso", "false", "fake", "mentira", "incorrect", "incorrecto", "faux", "enganoso">>

SpecTrueTerms == <<"verdadeiro", "true", "correct", "correto", "vrai", "autêntico">>

\* C12: the verdict the API source gives a rating string is Falso when the
\* lower-cased string contains a specified false term (whether or not it
\* contains a true term), Verdadeiro when it contains a true term and no
\* false term, Parcial when it contains neither
VerdictBySpecTerms ==
    (cand.kind = "api" /\ cand.has_rating /\ rec # NoRecord) =>
        LET r == Lower(cand.rating)
            f == AnyIn(r, SpecFalseTerms)
            t == AnyIn(r, SpecTrueTerms)
        IN  /\ (f /\ ~t) => rec.verdict = "Falso"
            /\ (t /\ ~f) => rec.verdict = "Verdadeiro"
            /\ (~f /\ ~t) => rec.verdict = "Parcial"
            /\ (f /\ t) => rec.verdict = "Falso"

\* C13: the feed entry titled "Governo anuncia medida, alegação é falsa", with
\* an empty summary and a link not stored, is stored with verdict Falso
FeedFalsaIsFalso ==
    (cand = FeedEntry("Governo anuncia medida, alegação é falsa", "") /\ rec # NoRecord)
        => rec.verdict = "Falso"

\* C14: the verdict the feed source and the scraper give a text is the verdict
\* the API source's classifier gives the same text
ClassifiersAgree ==
    /\ (cand.kind = "feed" /\ rec # NoRecord) =>
          rec.verdict = ApiVerdict(cand.title \o " " \o cand.summary)
    /\ (cand.kind = "review" /\ cand.rating_val # "" /\ rec # NoRecord) =>
          rec.verdict = ApiVerdict(cand.rating_val)

\* C17: the summary of every row a source builds has at most 500 characters
SummaryCapped ==
    rec # NoRecord => Len(rec.summary) <= SummaryCap

\* the API source was invoked with a key, one of its languages answers and
\* another fails or throws
ApiPartlyFails ==
    /\ up.apiKey
    /\ \E i \in DOMAIN last'.invoked : last'.invoked[i] = "google_api"
    /\ \E i, j \in DOMAIN agg.sources["google_api"].languages :
          /\ up.api[agg.sources["google_api"].languages[i]].status = "ok"
          /\ up.api[agg.sources["google_api"].languages[j]].status # "ok"

\* the step is a completed call of fetch on source last'.id
FetchStep == last'.op = "fetch" /\ clock' = clock + 1

\* C15: fetch on a source whose enabled flag is false returns 0, issues no
\* request, adds no row and leaves the source's stats as they were
DisabledFetchInert ==
    [][(FetchStep /\ ~agg.sources[last'.id].enabled) =>
          /\ last'.ret = 0 /\ ~last'.raised
          /\ last'.net = {} /\ last'.asked = <<>>
          /\ db' = db
          /\ agg'.sources[last'.id].stats = agg.sources[last'.id].stats]_vars

\* C15 witness: each class of source was fetched while disabled, with new urls
\* waiting upstream for it
DisabledFetchInertWitness ==
    /\ last.op = "fetch"
    /\ up = BusyUpstream
    /\ Len(db) = Len(InitDb)
    /\ \A id \in SourceSet : ~agg.sources[id].enabled

\* C16: when one configured language of the API source fails or throws and
\* another answers, every configured language is queried and fetch returns
\* the number of rows the answering languages stored
ApiPartialFailure ==
    [][(UpdateStep /\ ApiPartlyFails) =>
          /\ last'.asked = agg.sources["google_api"].languages
          /\ "google_api" \notin last'.failed
          /\ last'.counts["google_api"] =
                Cardinality(RowsBy(db', "google_api")) - Cardinality(RowsBy(db, "google_api"))]_vars

\* C18: every stored row has a non-empty url
NonEmptyUrls ==
    \A i \in DOMAIN db : db[i].url # ""

\* C19: every fetch of an enabled source that returns has set last_run, set
\* last_count to the count it returned and added that count to total_count
StatsRecorded ==
    [][UpdateStep =>
          \A id \in {last'.invoked[i] : i \in DOMAIN last'.invoked} \ last'.failed :
              /\ agg'.sources[id].stats.last_run = clock'
              /\ agg'.sources[id].stats.last_count = last'.counts[id]
              /\ agg'.sources[id].stats.total_count =
                    agg.sources[id].stats.total_count + last'.counts[id]]_vars

\* C20: when two update requests are served at once, no url ends up in two
\* stored rows
RaceNoDuplicateUrls ==
    \A url \in UrlsOf(db) : Cardinality(RowsWithUrl(db, url)) <= 1

\* the sources of SourceIds[1..k] that are enabled in cycle c, in order
EnabledUpTo(c, k) ==
    SelectSeq(SubSeq(SourceIds, 1, k), LAMBDA id : c.sources[id].enabled)

\* C21: within one update_all the document is written by one call of
\* save_config, made only after the fetch of every enabled source returned or
\* failed, and the sources are called one at a time in the order google_api,
\* poligrafo_scraper, observador_scraper, poligrafo_rss
SaveOnceAfterAll ==
    [][/\ cfgFile' # cfgFile =>
             \E p \in Cycles : cyc[p].pc \in {"idle", "run"} /\ cyc'[p].pc \in {"done", "dead"}
       /\ \A p \in Cycles :
             /\ cyc'[p].pc = "run" =>
                   /\ cyc'[p].saves = 0
                   /\ cyc'[p].order = EnabledUpTo(cyc'[p], cyc'[p].k)
             /\ (cyc[p].pc \in {"idle", "run"} /\ cyc'[p].pc = "done") =>
                   /\ cyc'[p].saves = 1
                   /\ cyc'[p].order = EnabledUpTo(cyc'[p], Len(SourceIds))]_vars

\* C21 witness: a cycle that called all four sources has ended and written
\* the document while the other cycle is still waiting for an answer
SaveOnceAfterAllWitness ==
    \E p, q \in Cycles :
        /\ cyc[p].pc = "done" /\ cyc[p].saves = 1 /\ Len(cyc[p].order) = Len(SourceIds)
        /\ cyc[q].pc = "run" /\ cyc[q].order # <<>>
        /\ cfgFile.kind = "object"

\* C22: when a fetch is caught as a failure by update_all, no row of that
\* source is added to the store by the call
FailedFetchStoresNothing ==
    [][UpdateStep =>
          \A id \in last'.failed :
              Cardinality(RowsBy(db', id)) = Cardinality(RowsBy(db, id))]_vars

LinkSet(links) == {links[n] : n \in DOMAIN links}

\* C24: of the links of a seed page the scraper requests at most 12, each with
\* a score above 0 and none stored already, and no link left out of the
\* selection scores higher than a selected one
LinkSelection ==
    [][(FetchStep /\ last'.id \in ScraperIds /\ agg.sources[last'.id].enabled) =>
          LET candidates == LinkSet(up.seed[last'.id].links)
              selected == LinkSet(last'.selected)
              fetched == LinkSet(last'.fetched)
          IN  /\ Len(last'.selected) <= LinkCap /\ Len(last'.fetched) <= LinkCap
              /\ Cardinality(fetched) = Len(last'.fetched)
              /\ fetched \subseteq selected /\ selected \subseteq candidates
              /\ \A l \in selected : Score(l) > 0
              /\ \A c \in candidates \ selected, l \in selected : Score(c) <= Score(l)
              /\ \A l \in fetched : l.url \notin UrlsOf(db)
              /\ \A l \in selected \ fetched : l.url \in UrlsOf(db')]_vars

\* C24 witness: a seed page with more than 12 scored links, one of them stored:
\* 12 were selected and the stored one was not requested
LinkSelectionWitness ==
    /\ last.op = "fetch" /\ last.id = "poligrafo_scraper"
    /\ Cardinality({l \in LinkSet(up.seed["poligrafo_scraper"].links) : Score(l) > 0}) > LinkCap
    /\ Len(last.selected) = LinkCap
    /\ Len(last.fetched) < Len(last.selected)
    /\ last.ret > 0

\* the objects a parsed block declares, in document order
Declared(block) == IF block.parses THEN ObjectsOf(block.data).objs ELSE <<>>

IsReview(obj) == obj.j = "dict" /\ obj.type = "ClaimReview"

\* the positions <<block, object>> of the ClaimReview objects of a page
ReviewPositions(page) ==
    UNION {{<<b, o>> : o \in {n \in 1..Len(Declared(page.blocks[b])) :
                                 IsReview(Declared(page.blocks[b])[n])}} :
           b \in 1..Len(page.blocks)}

\* those whose extraction completes and that no raising object precedes in
\* their block
SoundPositions(page) ==
    {p \in ReviewPositions(page) :
        LET objs == Declared(page.blocks[p[1]])
        IN  /\ ~ExtractionRaises(objs[p[2]])
            /\ \A o \in 1..(p[2] - 1) :
                  objs[o].j = "dict" /\ ~(IsReview(objs[o]) /\ ExtractionRaises(objs[o]))}

FirstOf(positions) ==
    CHOOSE p \in positions :
        \A q \in positions : q = p \/ p[1] < q[1] \/ (p[1] = q[1] /\ p[2] < q[2])

ObjectAt(page, p) == Declared(page.blocks[p[1]])[p[2]]

\* C25: _parse_article adds at most one row, built from the first ClaimReview
\* object of the page in document order; a page without one, or with only
\* unparsable blocks, gives 0 rows; nothing is raised
FirstReviewWins ==
    last.op = "parse" =>
        /\ last.ret \in {0, 1} /\ ~last.raised
        /\ ReviewPositions(cand) = {} => last.ret = 0
        /\ last.ret = 1 => (/\ ReviewPositions(cand) # {}
                            /\ last.used = FirstOf(ReviewPositions(cand)))

\* C25 as the code has it: at most one row, built from the first ClaimReview
\* object whose extraction completes and that no raising object precedes in
\* its block, and 0 rows exactly when there is no such object
FirstSoundReviewWins ==
    last.op = "parse" =>
        /\ last.ret \in {0, 1} /\ ~last.raised
        /\ ReviewPositions(cand) = {} => last.ret = 0
        /\ SoundPositions(cand) = {} => (last.ret = 0 /\ rec = NoRecord)
        /\ SoundPositions(cand) # {} =>
              /\ last.ret = 1
              /\ last.used = FirstOf(SoundPositions(cand))
              /\ rec = ScraperRecord(ClaimReview(ObjectAt(cand, last.used).claim,
                                                 ObjectAt(cand, last.used).rating, cand.title))

\* C25 witness: the first ClaimReview object of the page raises in the
\* extraction and the row was built from a ClaimReview object of a later block
FirstSoundReviewWinsWitness ==
    /\ last.op = "parse" /\ last.ret = 1
    /\ ExtractionRaises(ObjectAt(cand, FirstOf(ReviewPositions(cand))))
    /\ last.used[1] > FirstOf(ReviewPositions(cand))[1]
    /\ rec.summary = "A"

\* the source ids the persisted document holds a bare boolean for
LegacyIds(file) ==
    IF file.kind # "object" THEN {} ELSE {id \in SourceSet : file.doc[id].kind = "bool"}

\* C26: where the persisted document holds a bare boolean b for a source, the
\* constructed aggregator has that source with enabled = b and the default
\* stats, and the first save of that aggregator writes the source as
\* {enabled, languages, stats, type} with its flag, which is b unless the save
\* is that of a toggle of this very source
LegacyMigrated ==
    [][\A id \in LegacyIds(cfgFile) :
          /\ (last'.op = "construct" /\ agg'.state = "ready") =>
                (/\ agg'.sources[id].enabled = cfgFile.doc[id].b
                 /\ agg'.sources[id].stats = DefaultStats)
          /\ (last.op = "construct" /\ (UpdateStep \/ ToggleStep) /\ last'.write = "ok") =>
                (/\ cfgFile'.kind = "object"
                 /\ cfgFile'.doc[id].kind = "dict"
                 /\ cfgFile'.doc[id].enabled =
                       (IF (IF ToggleStep /\ last'.id = id THEN last'.flag
                            ELSE cfgFile.doc[id].b) THEN "true" ELSE "false")
                 /\ cfgFile'.doc[id].has_langs
                 /\ cfgFile'.doc[id].languages = agg.sources[id].languages
                 /\ cfgFile'.doc[id].stats_kind = "value"
                 /\ cfgFile'.doc[id].type = ClassOf(id))]_vars

\* C26 witness: an update cycle of an aggregator loaded from the document of
\* bare booleans has saved, and the source that was false is written
\* structured and disabled
LegacyMigratedWitness ==
    /\ last.op = "update" /\ last.write = "ok" /\ clock = 1
    /\ cfgFile.kind = "object"
    /\ cfgFile.doc["poligrafo_rss"].kind = "dict"
    /\ cfgFile.doc["poligrafo_rss"].enabled = "false"
    /\ cfgFile.doc["poligrafo_rss"].stats.total_count = 0
    /\ cfgFile.doc["observador_scraper"].enabled = "true"
    /\ cfgFile.doc["observador_scraper"].stats.total_count > 0
    /\ last.counts["google_api"] = 0

\* scheme and host of an absolute url, and its host
HostOf(url) ==
    LET rest == IF Contains(url, "://")
                THEN SubSeq(url, Len(UpTo(url, ":")) + 4, Len(url)) ELSE url
    IN  UpTo(UpTo(UpTo(rest, "/"), "?"), "#")

OriginOf(url) == UpTo(url, ":") \o "://" \o HostOf(url)

RootRelative(href) == StartsWith(href, "/") /\ ~StartsWith(href, "//")

\* C27: a root-relative href that is collected is the seed's origin followed
\* by the href, and every collected link has the seed's host
HrefOnSeedHost ==
    (last.op = "collect" /\ last.kept # <<>>) =>
        /\ RootRelative(cand.href) => last.kept[1] = OriginOf(cand.seed) \o cand.href
        /\ HostOf(last.kept[1]) = HostOf(cand.seed)

\* C28: when toggle(id, false) returned true and was written while an update
\* cycle was running, the document that cycle saves at its end still has the
\* source disabled
ToggleSurvivesUpdate ==
    [][\A p \in Cycles :
          (/\ last.op = "toggle" /\ last.ok /\ ~last.flag /\ last.write = "ok"
           /\ p \in last.during
           /\ cyc[p].pc = "run" /\ cyc'[p].pc = "done"
           /\ cfgFile'.kind = "object")
          => cfgFile'.doc[last.id].enabled = "false"]_vars

\* C29: after a save_config that succeeded, an aggregator constructed from
\* the persisted document has, for every source, the enabled flag and the
\* stats of the aggregator that saved, and for the API source its languages
SaveLoadRoundTrip ==
    (last.op \in {"toggle", "update"} /\ last.write = "ok" /\ agg.state = "ready") =>
        LET a == load_config(cfgFile)
        IN  /\ a.state = "ready"
            /\ \A id \in SourceSet :
                  /\ a.sources[id].enabled = agg.sources[id].enabled
                  /\ a.sources[id].stats = agg.sources[id].stats
            /\ a.sources["google_api"].languages = agg.sources["google_api"].languages

\* C29 witness: an update cycle has saved an aggregator with a disabled
\* source, a language list of its own and counts recorded in this cycle
SaveLoadRoundTripWitness ==
    /\ last.op = "update" /\ last.write = "ok" /\ agg.state = "ready"
    /\ agg.sources["google_api"].languages = <<"en">>
    /\ ~agg.sources["poligrafo_scraper"].enabled
    /\ last.ret > 0
    /\ \E id \in SourceSet : agg.sources[id].stats.last_run = clock

TotalCounts(sources) == [id \in SourceSet |-> sources[id].stats.total_count]

\* C30: over an update cycle of an aggregator constructed from a document of
\* well-formed stats, as the next aggregator reads them: no total_count
\* decreases, each is at least 0 and at least its last_count, and their sum
\* grows by the number of rows the cycle stored
StatsAccounting ==
    [][(/\ last.op = "construct" /\ UpdateStep
        /\ \A id \in SourceSet : ~StatsUnusable(cfgFile, id)) =>
          LET before == agg.sources
              after == load_config(cfgFile').sources
          IN  /\ \A id \in SourceSet :
                    /\ after[id].stats.total_count >= before[id].stats.total_count
                    /\ after[id].stats.total_count >= after[id].stats.last_count
                    /\ after[id].stats.total_count >= 0
              /\ SumCounts(TotalCounts(after), SourceSet)
                    - SumCounts(TotalCounts(before), SourceSet) = Len(db') - Len(db)]_vars

====
